---- MODULE Spec2Model ----
(***************************************************************************)
(* Model of the Market-Simulator ledger: marketsimcode.compute_portvals    *)
(* and the two trade-list generators of TheoreticallyOptimalStrategy.py.   *)
(*                                                                         *)
(* Numbers.  Dates are day numbers.  Money is exact: impact is the         *)
(* rational impact/ImpactDen and every price is a multiple of ImpactDen,   *)
(* so price * shares * (buy_or_sell - impact) is an integer.  pandas rows  *)
(* are 0-based (iloc); the sequences below are 1-based, row r of the model *)
(* is iloc[r - 1].  A missing cell (NaN) of the Order column is "NaN".     *)
(***************************************************************************)
EXTENDS Integers, Sequences, FiniteSets

\* ---------------------------------------------------------------- bounds
MaxDay == 3
MaxShares == 1
MaxOrders == 2
ImpactDen == 2

\* ------------------------------------------------------ program constants
LotSize == 1000
starting_value == 100000

Days == 0..MaxDay
Symbols == {"JPM", "IBM"}
NaN == "NaN"

\* The calendars of the price files: the days without a SPY price.
ClosedChoices == {{0}, {2}}

\* Closing prices before scaling, by symbol, for day 0, 1, 2, ...
BasePrice == [JPM |-> <<2, 1, 2, 3, 3, 2, 4>>, IBM |-> <<2, 1, 1, 2, 2, 3, 1>>]

VARIABLES source, closed, orders_df, start_val, commission, impact,
          pc, err, trades, i, net_holdings,
          dates, data_2, data_3, k, index, port_vals, log

vars == <<source, closed, orders_df, start_val, commission, impact,
          pc, err, trades, i, net_holdings,
          dates, data_2, data_3, k, index, port_vals, log>>

\* ------------------------------------------------------------ price files
\* util.get_data keeps the rows of the requested range that have a SPY price.
get_data(cl, first, last) == {d \in Days : d >= first /\ d <= last /\ d \notin cl}

\* The price of symbol s on day d, as get_data's frame holds it.
Price(d, s) == ImpactDen * BasePrice[s][d + 1]

RECURSIVE SortedSeq(_)
\* A DatetimeIndex: the days of a set in ascending order.
SortedSeq(S) ==
    IF S = {} THEN <<>>
    ELSE LET m == CHOOSE x \in S : \A y \in S : x <= y
         IN <<m>> \o SortedSeq(S \ {m})

RECURSIVE SumOver(_, _)
SumOver(S, f) ==
    IF S = {} THEN 0
    ELSE LET x == CHOOSE y \in S : TRUE
         IN f[x] + SumOver(S \ {x}, f)

\* The row number of a date in a DatetimeIndex, 0 when it has no such label.
RowOf(idx, date) ==
    IF \E r \in 1..Len(idx) : idx[r] = date
    THEN CHOOSE r \in 1..Len(idx) : idx[r] = date
    ELSE 0

\* -------------------------------------------------------- order records
Record(d, s, o, n) == [Date |-> d, Symbol |-> s, Order |-> o, Shares |-> n]

\* What a caller may pass: well-formed orders and the malformed records the
\* code takes without complaint (unknown side, zero shares, missing side).
CallerRecords ==
    {Record(d, s, o, n) : d \in 1..MaxDay, s \in Symbols,
                          o \in {"BUY", "SELL"}, n \in 1..MaxShares}
    \cup {Record(d, "JPM", "HOLD", 1) : d \in 1..MaxDay}
    \cup {Record(d, "JPM", "BUY", 0) : d \in 1..MaxDay}
    \cup {Record(d, "JPM", NaN, 0) : d \in 1..MaxDay}

CallerOrders == UNION {[1..n -> CallerRecords] : n \in 0..MaxOrders}

\* The Order invariant of the data model.
ValidOrder(o) == o.Shares > 0 /\ o.Order \in {"BUY", "SELL"}

\* ------------------------------------------------------- compute_portvals
unique_symbols(df) == {df[j].Symbol : j \in 1..Len(df)}

Columns(df) == unique_symbols(df) \cup {"Cash"}

\* data_1 with the Cash column left at 0.0.
data_1_cash_zero(date, col) == IF col = "Cash" THEN 0 ELSE Price(date, col)

\* data_1: the prices of the panel's rows and a Cash column of 1.0.
data_1(date, col) == IF col = "Cash" THEN 1 ELSE Price(date, col)

\* The row labels of orders_df that survive where(...).dropna(), in order.
RECURSIVE Filter(_, _, _)
Filter(df, j, sell) ==
    IF j > Len(df) THEN <<>>
    ELSE (IF df[j].Order # NaN /\ ((df[j].Order = "SELL") <=> sell)
          THEN <<j>> ELSE <<>>) \o Filter(df, j + 1, sell)

RECURSIVE Reverse(_)
Reverse(q) == IF q = <<>> THEN <<>> ELSE Append(Reverse(Tail(q)), Head(q))

\* sell_orders_df in descending label order.
sell_orders_df_reversed(df) == Reverse(Filter(df, 1, TRUE))

sell_orders_df(df) == Filter(df, 1, TRUE)

buy_orders_df(df) == Filter(df, 1, FALSE)

\* calculate_data_2 with the impact added to buy_or_sell instead of subtracted.
calculate_data_2_impact_sign(row, price, symbol, shares, imp, comm, buy_or_sell) ==
    [row EXCEPT ![symbol] = @ + (-buy_or_sell) * shares,
                !["Cash"] = @ + ((price * shares * (buy_or_sell * ImpactDen + imp))
                                 \div ImpactDen) - comm]

\* calculate_data_2 charging no commission on an order of no shares.
calculate_data_2_waived(row, price, symbol, shares, imp, comm, buy_or_sell) ==
    [row EXCEPT ![symbol] = @ + (-buy_or_sell) * shares,
                !["Cash"] = @ + ((price * shares * (buy_or_sell * ImpactDen - imp))
                                 \div ImpactDen) - (IF shares = 0 THEN 0 ELSE comm)]

\* calculate_data_2 taking the shares off the position whatever the side.
calculate_data_2_always_off(row, price, symbol, shares, imp, comm, buy_or_sell) ==
    [row EXCEPT ![symbol] = @ - shares,
                !["Cash"] = @ + ((price * shares * (buy_or_sell * ImpactDen - imp))
                                 \div ImpactDen) - comm]

\* One call of calculate_data_2 on a row the frame has: the new row.
calculate_data_2(row, price, symbol, shares, imp, comm, buy_or_sell) ==
    [row EXCEPT ![symbol] = @ + (-buy_or_sell) * shares,
                !["Cash"] = @ + ((price * shares * (buy_or_sell * ImpactDen - imp))
                                 \div ImpactDen) - comm]

\* edit_data_3_rows without the row before.
edit_data_3_rows_no_carry(prev, delta) == delta

\* edit_data_3_rows: the row of data_3 at index, from data_2 and the row before.
edit_data_3_rows(prev, delta) == [c \in DOMAIN delta |-> delta[c] + prev[c]]

\* (data_1 * data_3).sum(axis = 1) for one row.
RowValue(df, date, row) ==
    SumOver(Columns(df), [c \in Columns(df) |-> data_1(date, c) * row[c]])

ZeroRow(df) == [c \in Columns(df) |-> 0]

\* The rows of the three frames: the trading days of [begin_date - 1, end_date],
\* begin_date and end_date being the dates of the first and the last record.
Panel(df, cl) == SortedSeq(get_data(cl, df[1].Date - 1, df[Len(df)].Date))

\* sell_order / buy_order applied to data_2: the frame after the call for the
\* record labelled j, whose date is a row of the frame.
ApplyRecord(d2, idx, df, j, imp, comm, buy_or_sell) ==
    LET o == df[j]
        r == RowOf(idx, o.Date)
    IN [d2 EXCEPT ![r] = calculate_data_2(d2[r], Price(o.Date, o.Symbol), o.Symbol,
                                          o.Shares, imp, comm, buy_or_sell)]

\* ---------------------------------------------------- the whole call, pure
RECURSIVE ApplyAll(_, _, _, _, _, _, _)
\* DataFrame.apply over the filtered records, in the filtered frame's order.
ApplyAll(d2, idx, df, labels, imp, comm, buy_or_sell) ==
    IF labels = <<>> THEN d2
    ELSE ApplyAll(ApplyRecord(d2, idx, df, Head(labels), imp, comm, buy_or_sell),
                  idx, df, Tail(labels), imp, comm, buy_or_sell)

RECURSIVE RunningSum(_, _, _)
\* Lines 79-87: row 1 takes data_2's row 1 on top of the starting cash, every
\* later row adds data_2's row to the row before.  n rows are computed.
RunningSum(d2, sv, n) ==
    IF n = 1 THEN <<[d2[1] EXCEPT !["Cash"] = @ + sv]>>
    ELSE LET before == RunningSum(d2, sv, n - 1)
         IN Append(before, edit_data_3_rows(before[n - 1], d2[n]))

\* The outcome of compute_portvals(df, sv, comm, imp) on the calendar cl.
compute_portvals(df, sv, comm, imp, cl) ==
    IF Len(df) = 0 \/ Panel(df, cl) = <<>> THEN [err |-> "IndexError"]
    ELSE LET idx == Panel(df, cl)
             applied == sell_orders_df(df) \o buy_orders_df(df)
         IN IF \E a \in 1..Len(applied) : RowOf(idx, df[applied[a]].Date) = 0
            THEN [err |-> "KeyError"]
            ELSE LET zero == [r \in 1..Len(idx) |-> ZeroRow(df)]
                     sold == ApplyAll(zero, idx, df, sell_orders_df(df), imp, comm, 1)
                     d2 == ApplyAll(sold, idx, df, buy_orders_df(df), imp, comm, -1)
                     d3 == RunningSum(d2, sv, Len(idx))
                 IN [err |-> "none", dates |-> idx, data_3 |-> d3,
                     port_vals |-> [r \in 1..Len(idx) |->
                                      [Date |-> idx[r],
                                       Value |-> RowValue(df, idx[r], d3[r])]]]

\* ------------------------------------------------------------------ state
Commissions == {0, 5}
Impacts == {0, 1}

Init ==
    /\ source \in {"caller", "testPolicy", "benchmark"}
    /\ closed \in ClosedChoices
    /\ start_val = starting_value
    /\ IF source = "caller"
       THEN orders_df \in CallerOrders /\ commission \in Commissions
            /\ impact \in Impacts /\ pc = "setup"
       ELSE orders_df = <<>> /\ commission = 0 /\ impact = 0 /\ pc = source
    /\ err = "none"
    /\ trades = <<>> /\ i = 0 /\ net_holdings = 0
    /\ dates = <<>> /\ data_2 = <<>> /\ data_3 = <<>>
    /\ k = 0 /\ index = 0 /\ port_vals = <<>> /\ log = <<>>

ledger == <<dates, data_2, data_3, k, index, port_vals, log>>
inputs == <<source, closed, start_val, commission, impact>>
generator == <<trades, i, net_holdings>>

\* ------------------------------------------------- the trade-list generators
\* prices.index of both generators: the trading days of [sd, ed] = [0, MaxDay].
GeneratorDates == SortedSeq(get_data(closed, 0, MaxDay))

\* testPolicy, lines 36-47: one row per price date, Shares 0.0, no Order yet.
TestPolicyBegin ==
    /\ pc = "testPolicy"
    /\ trades' = [r \in 1..Len(GeneratorDates) |->
                     Record(GeneratorDates[r], "JPM", NaN, 0)]
    /\ net_holdings' = 0
    /\ i' = 1
    /\ pc' = "tp_loop"
    /\ UNCHANGED <<inputs, orders_df, err, ledger>>

abs(x) == IF x < 0 THEN -x ELSE x

\* The trade of one iteration of testPolicy's loop, lines 49-52.
new_trade(today, tomorrow, holdings) ==
    IF today < tomorrow THEN LotSize - holdings ELSE -LotSize - holdings

\* testPolicy, lines 48-61: iteration i of range(len(dates) - 1).
TestPolicyStep ==
    /\ pc = "tp_loop"
    /\ i < Len(trades)
    /\ LET nt == new_trade(Price(GeneratorDates[i], "JPM"),
                           Price(GeneratorDates[i + 1], "JPM"), net_holdings)
       IN /\ net_holdings' = net_holdings + nt
          /\ trades' = [trades EXCEPT ![i] =
                           Record(@.Date, @.Symbol,
                                  IF nt < 0 THEN "SELL" ELSE "BUY", abs(nt))]
    /\ i' = i + 1
    /\ UNCHANGED <<inputs, orders_df, pc, err, ledger>>

\* testPolicy, lines 63-66, and its caller, lines 164-170: the frame goes to
\* the valuation as it is.
TestPolicyReturn ==
    /\ pc = "tp_loop"
    /\ i >= Len(trades)
    /\ orders_df' = trades
    /\ pc' = "setup"
    /\ UNCHANGED <<inputs, err, generator, ledger>>

\* benchmark, lines 89-99: BUY on sd + 1, SELL on ed, 1000 shares each.
Benchmark ==
    /\ pc = "benchmark"
    /\ IF Len(GeneratorDates) < 2
       THEN pc' = "failed" /\ err' = "ValueError" /\ UNCHANGED <<orders_df, trades>>
       ELSE /\ trades' = <<Record(0 + 1, "JPM", "BUY", LotSize),
                           Record(MaxDay, "JPM", "SELL", LotSize)>>
            /\ orders_df' = trades'
            /\ pc' = "setup"
            /\ err' = err
    /\ UNCHANGED <<inputs, i, net_holdings, ledger>>

\* ------------------------------------------------- compute_portvals, stepwise
\* Lines 27-45: the window from the first and the last record, the three frames.
Setup ==
    /\ pc = "setup"
    /\ IF Len(orders_df) = 0 \/ Panel(orders_df, closed) = <<>>
       THEN /\ pc' = "failed" /\ err' = "IndexError"
            /\ UNCHANGED ledger
       ELSE /\ dates' = Panel(orders_df, closed)
            /\ data_2' = [r \in 1..Len(dates') |-> ZeroRow(orders_df)]
            /\ data_3' = [r \in 1..Len(dates') |->
                             IF r = 1 THEN [ZeroRow(orders_df) EXCEPT !["Cash"] = start_val]
                             ELSE ZeroRow(orders_df)]
            /\ k' = 1
            /\ pc' = "sell"
            /\ err' = err
            /\ UNCHANGED <<index, port_vals, log>>
    /\ UNCHANGED <<inputs, orders_df, generator>>

\* One call of the lambda of lines 52-63 or 66-77 on the record labelled j:
\* df.loc[date, symbol] raises KeyError when the frame has no row for the date.
Apply(j, buy_or_sell) ==
    IF RowOf(dates, orders_df[j].Date) = 0
    THEN /\ pc' = "failed" /\ err' = "KeyError"
         /\ UNCHANGED ledger
    ELSE /\ data_2' = ApplyRecord(data_2, dates, orders_df, j, impact, commission,
                                  buy_or_sell)
         /\ log' = Append(log, j)
         /\ k' = k + 1
         /\ UNCHANGED <<pc, err, dates, data_3, index, port_vals>>

\* Lines 51-63: the next SELL record.
ApplySell ==
    /\ pc = "sell"
    /\ k <= Len(sell_orders_df(orders_df))
    /\ Apply(sell_orders_df(orders_df)[k], 1)
    /\ UNCHANGED <<inputs, orders_df, generator>>

\* Line 65: the SELL records are done, the other records follow.
BuyFilter ==
    /\ pc = "sell"
    /\ k > Len(sell_orders_df(orders_df))
    /\ pc' = "buy"
    /\ k' = 1
    /\ UNCHANGED <<inputs, orders_df, err, generator, dates, data_2, data_3, index,
                   port_vals, log>>

\* Lines 66-77: the next record that is not a SELL.
ApplyBuy ==
    /\ pc = "buy"
    /\ k <= Len(buy_orders_df(orders_df))
    /\ Apply(buy_orders_df(orders_df)[k], -1)
    /\ UNCHANGED <<inputs, orders_df, generator>>

\* Lines 79-80 leaving the first row as line 44 seeded it: the orders of the
\* first row's day are lost.
FirstRow_seed_only ==
    /\ pc = "buy"
    /\ k > Len(buy_orders_df(orders_df))
    /\ index' = 1
    /\ pc' = "loop"
    /\ UNCHANGED <<inputs, orders_df, err, generator, dates, data_2, data_3, k,
                   port_vals, log>>

\* Lines 79-80: the first row of data_3.
FirstRow ==
    /\ pc = "buy"
    /\ k > Len(buy_orders_df(orders_df))
    /\ data_3' = [data_3 EXCEPT ![1] =
                     [c \in Columns(orders_df) |->
                         IF c = "Cash" THEN data_3[1][c] + data_2[1][c]
                         ELSE data_2[1][c]]]
    /\ index' = 1
    /\ pc' = "loop"
    /\ UNCHANGED <<inputs, orders_df, err, generator, dates, data_2, k, port_vals, log>>

\* Lines 86-87: one iteration of the loop, row iloc[index].
EditRow ==
    /\ pc = "loop"
    /\ index < Len(data_3)
    /\ data_3' = [data_3 EXCEPT ![index + 1] =
                     edit_data_3_rows(data_3[index], data_2[index + 1])]
    /\ index' = index + 1
    /\ UNCHANGED <<inputs, orders_df, pc, err, generator, dates, data_2, k,
                   port_vals, log>>

\* Lines 89-90: the series, one value per row of the frames.
Return ==
    /\ pc = "loop"
    /\ index >= Len(data_3)
    /\ port_vals' = [r \in 1..Len(dates) |->
                        [Date |-> dates[r],
                         Value |-> RowValue(orders_df, dates[r], data_3[r])]]
    /\ pc' = "done"
    /\ UNCHANGED <<inputs, orders_df, err, generator, dates, data_2, data_3, k,
                   index, log>>

Next ==
    \/ TestPolicyBegin
    \/ TestPolicyStep
    \/ TestPolicyReturn
    \/ Benchmark
    \/ Setup
    \/ ApplySell
    \/ BuyFilter
    \/ ApplyBuy
    \/ FirstRow
    \/ EditRow
    \/ Return

Spec == Init /\ [][Next]_vars

\* The stepwise call ends where the pure one does.
StepwiseAgrees ==
    pc \in {"done", "failed"} /\ source = "caller" =>
        LET out == compute_portvals(orders_df, start_val, commission, impact, closed)
        IN /\ out.err = err
           /\ pc = "done" => out.data_3 = data_3 /\ out.port_vals = port_vals

\* ------------------------------------------------------------ properties
\* The labels of the records of orders_df, in input order.
Labels == [j \in 1..Len(orders_df) |-> j]

\* The records the valuation takes as orders: those with a side.
Eligible(j) == orders_df[j].Order # NaN

\* The labels of the orders dated d, in input order.
OrdersOn(d) == SelectSeq(Labels, LAMBDA j : Eligible(j) /\ orders_df[j].Date = d)

\* What one order adds to the cell of column c on its day.
OrderDelta(j, c) ==
    calculate_data_2(ZeroRow(orders_df),
                     Price(orders_df[j].Date, orders_df[j].Symbol),
                     orders_df[j].Symbol, orders_df[j].Shares, impact, commission,
                     IF orders_df[j].Order = "SELL" THEN 1 ELSE -1)[c]

RECURSIVE DeltaSum(_, _)
DeltaSum(js, c) ==
    IF js = <<>> THEN 0 ELSE OrderDelta(Head(js), c) + DeltaSum(Tail(js), c)

\* The ledger before the orders of row r: the seed before the first row.
LedgerBefore(r) ==
    IF r = 1 THEN [ZeroRow(orders_df) EXCEPT !["Cash"] = start_val]
    ELSE data_3[r - 1]

PositionValue(r) ==
    SumOver(unique_symbols(orders_df),
            [s \in unique_symbols(orders_df) |-> data_3[r][s] * Price(dates[r], s)])

\* C1: every value of the returned series is the cash of its day plus the
\* positions of its day at that day's prices, cash and positions being the
\* ledger after all orders dated that day.
C1_ValueIsCashPlusPositions ==
    pc = "done" =>
        \A r \in 1..Len(port_vals) :
            /\ port_vals[r].Value = data_3[r]["Cash"] + PositionValue(r)
            /\ \A c \in Columns(orders_df) :
                  data_3[r][c] = LedgerBefore(r)[c] + DeltaSum(OrdersOn(dates[r]), c)

\* A returned series over a day with a position, cash spent and an order.
C1_Witness ==
    /\ pc = "done"
    /\ \E r \in 1..Len(port_vals) :
          /\ OrdersOn(dates[r]) # <<>>
          /\ PositionValue(r) > 0
          /\ data_3[r]["Cash"] < start_val

\* The change one applied order makes, as the cost model states it.
CostModelStep ==
    pc \in {"sell", "buy"} /\ log' # log =>
        LET j == log'[Len(log')]
            o == orders_df[j]
            r == RowOf(dates, o.Date)
            sign == IF o.Order = "BUY" THEN 1 ELSE -1
        IN o.Order \in {"BUY", "SELL"} =>
             /\ data_2'[r][o.Symbol] - data_2[r][o.Symbol] = sign * o.Shares
             /\ ImpactDen * (data_2'[r]["Cash"] - data_2[r]["Cash"] + commission)
                  = (-sign) * o.Shares * Price(o.Date, o.Symbol)
                            * (ImpactDen + sign * impact)
             /\ \A rr \in 1..Len(dates) : \A c \in Columns(orders_df) :
                   rr # r \/ c \notin {o.Symbol, "Cash"} => data_2'[rr][c] = data_2[rr][c]
             /\ data_3' = data_3

\* C2: one order changes the position of its symbol by +shares (BUY) or
\* -shares (SELL) and the cash by -shares*price*(1+impact) - commission (BUY)
\* or +shares*price*(1-impact) - commission (SELL), and nothing else.
C2_CostModel == [][CostModelStep]_vars

\* A BUY and a SELL applied under impact and commission, two symbols traded.
C2_Witness ==
    /\ Len(log) = 2
    /\ impact > 0 /\ commission > 0
    /\ {orders_df[log[a]].Order : a \in 1..2} = {"BUY", "SELL"}
    /\ Cardinality(unique_symbols(orders_df)) = 2
    /\ \A a \in 1..2 : orders_df[log[a]].Shares > 0

\* The days of the valuation window the price files have.
WindowDays ==
    LET ds == {orders_df[j].Date : j \in 1..Len(orders_df)}
        lo == CHOOSE x \in ds : \A y \in ds : x <= y
        hi == CHOOSE x \in ds : \A y \in ds : x >= y
    IN get_data(closed, lo, hi)

\* C3: for a non-empty list of well-formed orders in any order, the returned
\* series has exactly one entry for each day the price files have between the
\* earliest and the latest order date, in ascending order, and none outside
\* (none for the seed day).
C3_SeriesCoversWindow ==
    pc = "done" /\ Len(orders_df) > 0
    /\ (\A j \in 1..Len(orders_df) : ValidOrder(orders_df[j])) =>
        [r \in 1..Len(port_vals) |-> port_vals[r].Date] = SortedSeq(WindowDays)

\* C4: a day without orders leaves cash and positions as the day before left
\* them, and the value too when the prices of the held symbols did not move.
C4_CarryForward ==
    pc = "done" =>
        \A r \in 2..Len(dates) :
            (\A j \in 1..Len(orders_df) : orders_df[j].Date # dates[r]) =>
                /\ data_3[r] = data_3[r - 1]
                /\ (\A s \in unique_symbols(orders_df) :
                        data_3[r][s] # 0 => Price(dates[r], s) = Price(dates[r - 1], s))
                   => port_vals[r].Value = port_vals[r - 1].Value

\* A day without orders inside the window, a position held over it at an
\* unchanged price.
C4_Witness ==
    /\ pc = "done"
    /\ \E r \in 2..Len(dates) :
          /\ \A j \in 1..Len(orders_df) : orders_df[j].Date # dates[r]
          /\ dates[r] > orders_df[1].Date
          /\ \E s \in unique_symbols(orders_df) :
                data_3[r][s] # 0 /\ Price(dates[r], s) = Price(dates[r - 1], s)
          /\ \A s \in unique_symbols(orders_df) :
                data_3[r][s] # 0 => Price(dates[r], s) = Price(dates[r - 1], s)

\* The orders dated d or before.
AppliedUpTo(d) == {j \in 1..Len(orders_df) : Eligible(j) /\ orders_df[j].Date <= d}

\* The same call without commission.
CommissionFree == compute_portvals(orders_df, start_val, 0, impact, closed)

\* A BUY and a SELL of the same shares of the same symbol on the same day.
SameDayPair ==
    /\ Len(orders_df) = 2
    /\ {orders_df[1].Order, orders_df[2].Order} = {"BUY", "SELL"}
    /\ orders_df[1].Symbol = orders_df[2].Symbol
    /\ orders_df[1].Shares = orders_df[2].Shares
    /\ orders_df[1].Date = orders_df[2].Date

\* C5: without impact, every value is lower than the value of the
\* commission-free call by one commission for each order applied so far, so
\* by exactly the commission after a single order; a BUY and a SELL of the
\* same shares on one day leave the starting value less two commissions.
C5_CommissionOncePerOrder ==
    pc = "done" /\ impact = 0 =>
        /\ \A r \in 1..Len(port_vals) :
              port_vals[r].Value = CommissionFree.port_vals[r].Value
                                   - commission * Cardinality(AppliedUpTo(dates[r]))
        /\ SameDayPair =>
              port_vals[RowOf(dates, orders_df[1].Date)].Value
                  = start_val - 2 * commission

\* The same-day pair under a commission, and a later day after it.
C5_Witness ==
    /\ pc = "done" /\ impact = 0 /\ commission > 0
    /\ SameDayPair
    /\ port_vals[Len(port_vals)].Value = start_val - 2 * commission

\* A BUY b followed by a SELL s of the same shares of the same symbol at the
\* same price, no other order on their days or between.
RoundTrip(b, s) ==
    /\ b < s
    /\ orders_df[b].Order = "BUY" /\ orders_df[s].Order = "SELL"
    /\ orders_df[b].Symbol = orders_df[s].Symbol
    /\ orders_df[b].Shares = orders_df[s].Shares
    /\ orders_df[b].Date <= orders_df[s].Date
    /\ Price(orders_df[b].Date, orders_df[b].Symbol)
         = Price(orders_df[s].Date, orders_df[s].Symbol)
    /\ \A j \in 1..Len(orders_df) :
          Eligible(j) /\ j \notin {b, s} =>
              orders_df[j].Date < orders_df[b].Date \/ orders_df[j].Date > orders_df[s].Date

C7_InvalidOrderRejected ==
    (\E j \in 1..Len(orders_df) : ~ValidOrder(orders_df[j])) =>
        /\ \A a \in 1..Len(log) : ValidOrder(orders_df[log[a]])
        /\ pc # "done"

\* C8: a call with an order dated on a day the price panel has no row for
\* returns no series.
C8_MissingPriceFails ==
    pc = "done" => \A j \in 1..Len(orders_df) : RowOf(dates, orders_df[j].Date) # 0

\* C9: every record a trade-list generator hands to the valuation has
\* shares > 0 and the side BUY or SELL.
C9_GeneratedOrdersValid ==
    source \in {"testPolicy", "benchmark"} /\ pc = "setup" =>
        \A j \in 1..Len(orders_df) : ValidOrder(orders_df[j])

\* j is applied before l by date, and by input order within a date.
DayOrderBefore(j, l) ==
    \/ orders_df[j].Date < orders_df[l].Date
    \/ orders_df[j].Date = orders_df[l].Date /\ j < l

PassOrderBefore(j, l) ==
    LET pass(x) == IF orders_df[x].Order = "SELL" THEN 0 ELSE 1
    IN pass(j) < pass(l) \/ (pass(j) = pass(l) /\ j < l)

PositionDelta(j) ==
    IF orders_df[j].Order = "SELL" THEN -orders_df[j].Shares ELSE orders_df[j].Shares

CashDelta(j) ==
    LET gross == orders_df[j].Shares * Price(orders_df[j].Date, orders_df[j].Symbol)
    IN (IF orders_df[j].Order = "SELL"
        THEN (gross * (ImpactDen - impact)) \div ImpactDen
        ELSE -((gross * (ImpactDen + impact)) \div ImpactDen)) - commission

RECURSIVE SequentialFold(_, _, _)
\* The day-by-day fold in input order: the ledger after the orders among the
\* first n records that are dated d or before.
SequentialFold(n, d, seed) ==
    IF n = 0 THEN seed
    ELSE LET before == SequentialFold(n - 1, d, seed)
         IN IF Eligible(n) /\ orders_df[n].Date <= d
            THEN [before EXCEPT ![orders_df[n].Symbol] = @ + PositionDelta(n),
                                !["Cash"] = @ + CashDelta(n)]
            ELSE before

\* C11: the two passes and the running sum give, for every date of the
\* returned series, the ledger of the sequential fold in input order: the
\* starting cash plus the cash deltas of the orders dated that day or before,
\* and for each symbol the sum of its position deltas; also when the first
\* row of the panel is the first order date.
C11_TwoPassEqualsFold ==
    pc = "done" =>
        \A r \in 1..Len(port_vals) :
            data_3[r] = SequentialFold(Len(orders_df), port_vals[r].Date,
                                       [ZeroRow(orders_df) EXCEPT !["Cash"] = start_val])

\* The first row of the panel is the first order date; the BUY of that day
\* precedes, in the input, the SELL of a later day that the first pass takes
\* first; impact and commission are charged.
C11_Witness ==
    /\ pc = "done"
    /\ Len(orders_df) = 2
    /\ dates[1] = orders_df[1].Date
    /\ orders_df[1].Order = "BUY" /\ orders_df[2].Order = "SELL"
    /\ orders_df[2].Date > orders_df[1].Date
    /\ \A j \in 1..2 : ValidOrder(orders_df[j])
    /\ impact > 0 /\ commission > 0

====
